---- MODULE Spec2Model ----
(***************************************************************************)
(* Model of ext/stacks/stacks.c, the ScoutProf sampling engine.            *)
(*                                                                         *)
(* Spec     one thread's context (the __thread variables of stacks.c):     *)
(*          the SIGVTALRM handler, scout_record_sample and the per-thread  *)
(*          control methods, started in the state init_thread_vars leaves. *)
(* SpecReg  the process-wide part: the profiled-thread list and its mutex, *)
(*          add/remove_profiled_thread and install/uninstall/start.        *)
(* SpecTimer the timer path: background_worker, the postponed broadcast    *)
(*          job walking the list, the threads it signals, their exit, and  *)
(*          the registry methods running beside them.                      *)
(*                                                                         *)
(* The handler runs on the thread it interrupts, so it runs to completion  *)
(* before the interrupted code resumes; a further delivery may nest on top *)
(* of a running handler (that is what _in_signal_handler guards).          *)
(***************************************************************************)
EXTENDS Integers, Sequences, FiniteSets, TLC

(***************************************************************************)
(* Bounds of the model.                                                    *)
(***************************************************************************)
\* MAX_TRACES is 2000 and BUF_SIZE 512 in stacks.c (lines 49-50); the model
\* keeps their roles and scales them down.
MAX_TRACES == 2
BUF_SIZE == 4
\* uint_fast16_t is an unsigned type of rank >= int on the targets that have
\* clock_nanosleep (32 bits on musl and the BSDs, 64 on glibc): arithmetic on
\* it wraps modulo 2^w.  The model scales w down, keeping MAX_TRACES and
\* BUF_SIZE far below half the range.
WordBits == 5
\* Deepest nesting of handler invocations on the thread's stack.
MaxNest == 2
\* Cap of the two skip counters (uint_fast32_t in the code).
MaxSkips == 1

UFAST16_MOD == 2 ^ WordBits
HalfWord == UFAST16_MOD \div 2

\* The int arguments update_indexes is called with, and their stored values.
TraceIndexArgs == (-1) .. MAX_TRACES
FrameIndexArgs == {0, 1}

(***************************************************************************)
(* Integer conversions of C.                                               *)
(***************************************************************************)
\* int -> uint_fast16_t (atomic_store of NUM2INT(x)).
ToUFast16(x) == x % UFAST16_MOD
\* Unsigned subtraction.
USub(a, b) == (a - b) % UFAST16_MOD
\* uint_fast16_t -> int / long: the top bit becomes the sign.
ToInt(v) == IF v >= HalfWord THEN v - UFAST16_MOD ELSE v

(***************************************************************************)
(* The frame-capture primitive rb_profile_frames: frame k of the stack     *)
(* (0-based) is the reference FrameRef(k) at source line LineNo(k).        *)
(***************************************************************************)
NoValue == 0
FrameRef(k) == 100 + k
LineNo(k) == 10 + k

VARIABLES
  \* ---- thread-local state (Spec) ----
  ok_to_sample,                \* _ok_to_sample
  in_signal_handler,           \* _in_signal_handler
  start_frame_index,           \* _start_frame_index
  start_trace_index,           \* _start_trace_index
  cur_traces_num,              \* _cur_traces_num
  skipped_in_gc,               \* _skipped_in_gc
  skipped_in_signal_handler,   \* _skipped_in_signal_handler
  traces,                      \* _traces[0 .. MAX_TRACES-1]
  hstack,                      \* handler invocations on the stack, innermost last
  mpc,                         \* position of the interrupted (mainline) code
  m_cur, m_start,              \* locals of rb_scout_profile_frames
  ret,                         \* array profile_frames returned in the step just taken
  ret_idx,                     \* buffer index of each trace in ret
  ret_int,                     \* integer current_trace_index returned in that step
  marked,                      \* buffer indexes scoutprof_gc_mark read in that step
  last,                        \* what the last step did
  process,                     \* "running" | "crashed"
  upd_t,                       \* trace_index argument of the last update_indexes
  ticks, gcticks, clean,       \* bookkeeping of an undisturbed run of ticks
  \* ---- process-wide state (SpecReg) ----
  head_thread,                 \* the linked list of thread handles, newest first
  mutex,                       \* owner of profiled_threads_mutex, or NoThread
  th,                          \* per thread: position and thread-local state
  reg_ret,                     \* value the call completed in the step just taken returned
  installed,                   \* scout_profiling_installed
  running,                     \* scout_profiling_running
  worker,                      \* the thread btid names: "none" | "running" | "cancelled"
  workers_created,             \* number of pthread_create calls made
  reg_process,                 \* "running" | "crashed"
  reg_last,                    \* what the last step did, as << name, thread >>
  \* ---- the timer, the broadcast job and the threads it signals (SpecTimer) ----
  job_registered,              \* _job_registered
  jobs_pending,                \* postponed jobs the host holds for the broadcast function
  wpc,                         \* position of background_worker
  jpc,                         \* position of scout_signal_threads_to_profile
  jptr,                        \* the node ptr points to, as an index of head_thread
  sig,                         \* per thread: a SIGVTALRM sent and not yet handled
  samples,                     \* per thread: traces its handler appended
  gc_skips                     \* per thread: samples its handler skipped during GC

ctx_vars == << ok_to_sample, in_signal_handler, start_frame_index, start_trace_index,
               cur_traces_num, skipped_in_gc, skipped_in_signal_handler, traces,
               hstack, mpc, m_cur, m_start, ret, ret_idx, ret_int, marked, last, process,
               upd_t, ticks, gcticks, clean >>
reg_vars == << head_thread, mutex, th, reg_ret, installed, running, worker,
               workers_created, reg_process, reg_last >>
tm_vars == << job_registered, jobs_pending, wpc, jpc, jptr, sig, samples, gc_skips >>
vars == << ctx_vars, reg_vars, tm_vars >>

(***************************************************************************)
(* struct c_trace.  ALLOC_N does not clear the memory: nt_init tells       *)
(* whether num_tracelines was ever written, and an entry of frames_buf or  *)
(* lines_buf never written holds NoValue.  live tells whether the slot     *)
(* holds a trace an accepted capture stored since _cur_traces_num was last *)
(* moved to or below its index.                                            *)
(***************************************************************************)
FreshTrace == [ num_tracelines |-> 0, nt_init |-> FALSE, live |-> FALSE,
                lines_buf  |-> [k \in 0 .. BUF_SIZE - 1 |-> NoValue],
                frames_buf |-> [k \in 0 .. BUF_SIZE - 1 |-> NoValue] ]

(***************************************************************************)
(* init_thread_vars: the context a thread has after add_profiled_thread.   *)
(* The two skip counters are not assigned there; as thread-local statics   *)
(* they start at zero.                                                     *)
(***************************************************************************)
init_thread_vars ==
  /\ ok_to_sample = FALSE
  /\ in_signal_handler = FALSE
  /\ start_frame_index = 0
  /\ start_trace_index = 0
  /\ cur_traces_num = 0
  /\ skipped_in_gc = 0
  /\ skipped_in_signal_handler = 0
  /\ traces = [i \in 0 .. MAX_TRACES - 1 |-> FreshTrace]

CtxInit ==
  /\ init_thread_vars
  /\ hstack = << >>
  /\ mpc = "idle"
  /\ m_cur = 0
  /\ m_start = 0
  /\ ret = << >>
  /\ ret_idx = << >>
  /\ ret_int = 0
  /\ marked = {}
  /\ last = "init"
  /\ process = "running"
  /\ upd_t = 0
  /\ ticks = 0
  /\ gcticks = 0
  /\ clean = TRUE

\* What a step that returns nothing to Ruby leaves in the output variables.
NoReturn == /\ ret' = << >>
            /\ ret_idx' = << >>
            /\ ret_int' = 0
            /\ marked' = {}

\* The buffer once _cur_traces_num is moved to newcur: the slots at newcur
\* and above hold no trace any more.
Released(newcur) ==
  [i \in 0 .. MAX_TRACES - 1 |->
     IF i >= newcur THEN [traces[i] EXCEPT !.live = FALSE] ELSE traces[i]]

Frame(pc) == [pc |-> pc, cur |-> 0, sfi |-> 0]
Top == hstack[Len(hstack)]
SetTop(f) == [hstack EXCEPT ![Len(hstack)] = f]
Pop == SubSeq(hstack, 1, Len(hstack) - 1)
AtTop(pc) == /\ process = "running"
             /\ hstack # << >>
             /\ Top.pc = pc

(***************************************************************************)
(* scout_profile_broadcast_signal_handler, lines 358-372.                  *)
(***************************************************************************)
\* A handler that never looks at the guard.
Reentered_Never == FALSE

\* Line 362: atomic_load(&_in_signal_handler) == true.
Reentered == in_signal_handler

\* Delivery of SIGVTALRM and the two checks of lines 360-365.
SignalHandlerEnter ==
  /\ process = "running"
  /\ Len(hstack) < MaxNest
  /\ (ok_to_sample /\ Reentered) => skipped_in_signal_handler < MaxSkips
  /\ IF ~ok_to_sample
       THEN /\ last' = "h_disabled"
            /\ UNCHANGED << skipped_in_signal_handler, hstack >>
       ELSE IF Reentered
         THEN /\ skipped_in_signal_handler' = skipped_in_signal_handler + 1
              /\ last' = "h_reentrant"
              /\ UNCHANGED hstack
         ELSE /\ hstack' = Append(hstack, Frame("set"))
              /\ last' = "h_enter"
              /\ UNCHANGED skipped_in_signal_handler
  /\ NoReturn
  /\ UNCHANGED << ok_to_sample, in_signal_handler, start_frame_index, start_trace_index,
                  cur_traces_num, skipped_in_gc, traces, mpc, m_cur, m_start,
                  process, upd_t, ticks, gcticks, clean >>
  /\ UNCHANGED << reg_vars, tm_vars >>

\* Line 367: atomic_store(&_in_signal_handler, true).
SignalHandlerSet ==
  /\ AtTop("set")
  /\ in_signal_handler' = TRUE
  /\ hstack' = SetTop(Frame("rec"))
  /\ last' = "h_set"
  /\ NoReturn
  /\ UNCHANGED << ok_to_sample, start_frame_index, start_trace_index, cur_traces_num,
                  skipped_in_gc, skipped_in_signal_handler, traces, mpc, m_cur, m_start,
                  process, upd_t, ticks, gcticks, clean >>
  /\ UNCHANGED << reg_vars, tm_vars >>

\* A handler that returns without releasing the guard.
SignalHandlerClear_Forgotten ==
  /\ AtTop("clear")
  /\ hstack' = Pop
  /\ last' = "h_return"
  /\ NoReturn
  /\ UNCHANGED << ok_to_sample, in_signal_handler, start_frame_index, start_trace_index,
                  cur_traces_num, skipped_in_gc, skipped_in_signal_handler, traces, mpc,
                  m_cur, m_start, process, upd_t, ticks, gcticks, clean >>
  /\ UNCHANGED << reg_vars, tm_vars >>

\* Line 371: atomic_store(&_in_signal_handler, false), and the return.
SignalHandlerClear ==
  /\ AtTop("clear")
  /\ in_signal_handler' = FALSE
  /\ hstack' = Pop
  /\ last' = "h_return"
  /\ NoReturn
  /\ UNCHANGED << ok_to_sample, start_frame_index, start_trace_index, cur_traces_num,
                  skipped_in_gc, skipped_in_signal_handler, traces, mpc, m_cur, m_start,
                  process, upd_t, ticks, gcticks, clean >>
  /\ UNCHANGED << reg_vars, tm_vars >>

(***************************************************************************)
(* scout_record_sample, lines 388-410.                                     *)
(***************************************************************************)
\* A GC gate that drops the sample without counting it.
SkippedInGcAfter_Uncounted == skipped_in_gc

\* Line 395: atomic_fetch_add(&_skipped_in_gc, 1).
SkippedInGcAfter == skipped_in_gc + 1

\* A capacity gate that lets one capture too many through.
HasRoom_OffByOne(cur) == cur <= MAX_TRACES

\* Line 402: cur_traces_num < MAX_TRACES.
HasRoom(cur) == cur < MAX_TRACES

\* Lines 393-402: the sampling gate, the GC gate (during_gc is what
\* rb_during_gc() answers), the two loads and the capacity gate.
RecordSampleGates(during_gc) ==
  /\ AtTop("rec")
  /\ (ok_to_sample /\ during_gc) => skipped_in_gc < MaxSkips
  /\ IF ~ok_to_sample
       THEN /\ hstack' = SetTop(Frame("clear"))
            /\ last' = "r_disabled"
            /\ UNCHANGED << skipped_in_gc, ticks, gcticks, clean >>
       ELSE IF during_gc
         THEN /\ skipped_in_gc' = SkippedInGcAfter
              /\ hstack' = SetTop(Frame("clear"))
              /\ last' = "r_gc"
              /\ ticks' = IF clean THEN ticks + 1 ELSE 0
              /\ gcticks' = IF clean THEN gcticks + 1 ELSE 0
              /\ UNCHANGED clean
         ELSE IF HasRoom(cur_traces_num)
           THEN /\ hstack' = SetTop([pc |-> "capture", cur |-> cur_traces_num,
                                     sfi |-> start_frame_index])
                /\ last' = "r_loaded"
                /\ UNCHANGED << skipped_in_gc, ticks, gcticks, clean >>
           ELSE /\ hstack' = SetTop(Frame("clear"))
                /\ last' = "r_full"
                /\ clean' = FALSE
                /\ ticks' = 0
                /\ gcticks' = 0
                /\ UNCHANGED skipped_in_gc
  /\ NoReturn
  /\ UNCHANGED << ok_to_sample, in_signal_handler, start_frame_index, start_trace_index,
                  cur_traces_num, skipped_in_signal_handler, traces, mpc, m_cur, m_start,
                  process, upd_t >>
  /\ UNCHANGED << reg_vars, tm_vars >>

\* rb_profile_frames(0, BUF_SIZE, frames_buf, lines_buf) returning n: the
\* first n entries of both buffers of the slot are overwritten.
ProfileFramesInto(slot, n) ==
  [slot EXCEPT !.frames_buf = [k \in 0 .. BUF_SIZE - 1 |->
                                 IF k < n THEN FrameRef(k) ELSE slot.frames_buf[k]],
               !.lines_buf  = [k \in 0 .. BUF_SIZE - 1 |->
                                 IF k < n THEN LineNo(k) ELSE slot.lines_buf[k]]]

\* Line 404: num_frames - start_frame_index > 2, computed in uint_fast16_t.
Accepts(n, sfi) == USub(ToUFast16(n), sfi) > 2
\* Line 405: the value stored in the int num_tracelines.
NumTracelines(n, sfi) == ToInt(USub(USub(ToUFast16(n), sfi), 2))

\* Lines 403-407, with n the number of frames rb_profile_frames reports.
RecordSampleCapture(n) ==
  /\ AtTop("capture")
  /\ LET c == Top.cur
         filled == ProfileFramesInto(traces[c], n)
     IN IF Accepts(n, Top.sfi)
          THEN /\ traces' = [traces EXCEPT ![c] =
                               [filled EXCEPT !.num_tracelines = NumTracelines(n, Top.sfi),
                                              !.nt_init = TRUE, !.live = TRUE]]
               /\ cur_traces_num' = (cur_traces_num + 1) % UFAST16_MOD
               /\ last' = "r_accepted"
               /\ ticks' = IF clean THEN ticks + 1 ELSE 0
               /\ UNCHANGED << gcticks, clean >>
          ELSE /\ traces' = [traces EXCEPT ![c] = filled]
               /\ last' = "r_rejected"
               /\ clean' = FALSE
               /\ ticks' = 0
               /\ gcticks' = 0
               /\ UNCHANGED cur_traces_num
  /\ hstack' = SetTop(Frame("clear"))
  /\ NoReturn
  /\ UNCHANGED << ok_to_sample, in_signal_handler, start_frame_index, start_trace_index,
                  skipped_in_gc, skipped_in_signal_handler, mpc, m_cur, m_start,
                  process, upd_t >>
  /\ UNCHANGED << reg_vars, tm_vars >>

(***************************************************************************)
(* The per-thread control methods.  They run in the interrupted code, so   *)
(* only while no handler invocation is on the stack.                       *)
(***************************************************************************)
Mainline == /\ process = "running"
            /\ hstack = << >>
            /\ mpc = "idle"

\* rb_scout_start_sampling, lines 457-461.
StartSampling ==
  /\ Mainline
  /\ ok_to_sample' = TRUE
  /\ last' = "start_sampling"
  /\ NoReturn
  /\ UNCHANGED << in_signal_handler, start_frame_index, start_trace_index, cur_traces_num,
                  skipped_in_gc, skipped_in_signal_handler, traces, hstack, mpc, m_cur,
                  m_start, process, upd_t, ticks, gcticks, clean >>
  /\ UNCHANGED << reg_vars, tm_vars >>

\* The Ruby values stop_sampling is called with; TYPE(reset) == T_TRUE.
ResetArgs == {"true", "false", "nil"}

\* A test that takes every value but false for a request to reset.
IsTrue_NotFalse(reset) == reset # "false"

\* Line 469: TYPE(reset) == T_TRUE.
IsTrue(reset) == reset = "true"

\* rb_scout_stop_sampling, lines 465-475.
StopSampling(reset) ==
  /\ Mainline
  /\ ok_to_sample' = FALSE
  /\ IF IsTrue(reset)
       THEN /\ cur_traces_num' = 0
            /\ skipped_in_gc' = 0
            /\ skipped_in_signal_handler' = 0
            /\ traces' = Released(0)
            /\ last' = "stop_sampling_reset"
            /\ clean' = TRUE
            /\ ticks' = 0
            /\ gcticks' = 0
       ELSE /\ last' = "stop_sampling"
            /\ UNCHANGED << cur_traces_num, skipped_in_gc, skipped_in_signal_handler,
                            traces, clean, ticks, gcticks >>
  /\ NoReturn
  /\ UNCHANGED << in_signal_handler, start_frame_index, start_trace_index,
                  hstack, mpc, m_cur, m_start, process, upd_t >>
  /\ UNCHANGED << reg_vars, tm_vars >>

\* update_indexes with its two arguments stored the wrong way round.
UpdateIndexes_Swapped(frame_index, trace_index) ==
  /\ Mainline
  /\ start_trace_index' = ToUFast16(frame_index)
  /\ start_frame_index' = ToUFast16(trace_index)
  /\ upd_t' = trace_index
  /\ last' = "update_indexes"
  /\ NoReturn
  /\ UNCHANGED << ok_to_sample, in_signal_handler, cur_traces_num, skipped_in_gc,
                  skipped_in_signal_handler, traces, hstack, mpc, m_cur, m_start,
                  process, ticks, gcticks, clean >>
  /\ UNCHANGED << reg_vars, tm_vars >>

\* rb_scout_update_indexes, lines 479-484.
UpdateIndexes(frame_index, trace_index) ==
  /\ Mainline
  /\ start_trace_index' = ToUFast16(trace_index)
  /\ start_frame_index' = ToUFast16(frame_index)
  /\ upd_t' = trace_index
  /\ last' = "update_indexes"
  /\ NoReturn
  /\ UNCHANGED << ok_to_sample, in_signal_handler, cur_traces_num, skipped_in_gc,
                  skipped_in_signal_handler, traces, hstack, mpc, m_cur, m_start,
                  process, ticks, gcticks, clean >>
  /\ UNCHANGED << reg_vars, tm_vars >>

\* rb_scout_current_trace_index, lines 488-491.
CurrentTraceIndex ==
  /\ Mainline
  /\ ret_int' = ToInt(cur_traces_num)
  /\ ret' = << >>
  /\ ret_idx' = << >>
  /\ marked' = {}
  /\ last' = "current_trace_index"
  /\ UNCHANGED << ok_to_sample, in_signal_handler, start_frame_index, start_trace_index,
                  cur_traces_num, skipped_in_gc, skipped_in_signal_handler, traces,
                  hstack, mpc, m_cur, m_start, process, upd_t, ticks, gcticks, clean >>
  /\ UNCHANGED << reg_vars, tm_vars >>

(***************************************************************************)
(* rb_scout_profile_frames, lines 416-447.                                 *)
(***************************************************************************)
\* Lines 422-423: the two loads.
ProfileFramesLoad ==
  /\ Mainline
  /\ m_cur' = cur_traces_num
  /\ m_start' = start_trace_index
  /\ mpc' = "drain"
  /\ last' = "drain_load"
  /\ NoReturn
  /\ UNCHANGED << ok_to_sample, in_signal_handler, start_frame_index, start_trace_index,
                  cur_traces_num, skipped_in_gc, skipped_in_signal_handler, traces,
                  hstack, process, upd_t, ticks, gcticks, clean >>
  /\ UNCHANGED << reg_vars, tm_vars >>

\* rb_ary_new2(capa) takes a long.  A capacity with the top bit set is a
\* negative long where the word is as wide as long (ArgumentError), and an
\* allocation of gigabytes where it is narrower (it succeeds, or NoMemoryError).
RbAryNew2(capa) == IF capa >= HalfWord THEN {"ok", "raise"} ELSE {"ok"}

\* The indexes of [from, to) the loop of line 430 reads that hold no written
\* num_tracelines: beyond the allocation, or never stored to.
OutOfBuffer(from, to) == {i \in from .. to - 1 : i >= MAX_TRACES}
Unwritten(from, to) == {i \in from .. to - 1 : i < MAX_TRACES /\ ~traces[i].nt_init}

\* _traces[i] as the loop reads it; g is what an indeterminate num_tracelines
\* reads as.
ReadTrace(i, g) ==
  IF i >= MAX_TRACES THEN [FreshTrace EXCEPT !.num_tracelines = g]
  ELSE IF traces[i].nt_init THEN traces[i]
  ELSE [traces[i] EXCEPT !.num_tracelines = g]

\* Lines 432-438: the array of [frame, line] pairs built from one trace.
TraceLines(t) ==
  [n \in 1 .. t.num_tracelines |->
     IF n - 1 < BUF_SIZE THEN << t.frames_buf[n - 1], t.lines_buf[n - 1] >>
                         ELSE << NoValue, NoValue >>]

\* Lines 430-441: for (i = start_trace_index; i < cur_traces_num; i++), as
\* the indexes visited in order, those whose trace has num_tracelines > 0,
\* and the array pushed for each of them.
DrainLoop(from, to, g) ==
  LET visited == [k \in 1 .. (to - from) |-> from + k - 1]
      IsKept(i) == ReadTrace(i, g).num_tracelines > 0
      kept == SelectSeq(visited, IsKept)
  IN [out |-> [k \in DOMAIN kept |-> TraceLines(ReadTrace(kept[k], g))],
      idx |-> kept]

\* What the rest of the call can do once the loads are made: raise from
\* rb_ary_new2, fault on a read beyond the allocation, or run to the end.
DrainOutcomes ==
  LET capa == USub(m_cur, m_start)
  IN IF capa > 0
       THEN {[kind |-> "raise", g |-> 0] : k \in {a \in RbAryNew2(capa) : a = "raise"}}
            \cup {[kind |-> "segv", g |-> 0] : i \in OutOfBuffer(m_start, m_cur)}
            \cup {[kind |-> "ok", g |-> 0]}
            \cup {[kind |-> "ok", g |-> 1] :
                     i \in OutOfBuffer(m_start, m_cur) \cup Unwritten(m_start, m_cur)}
       ELSE {[kind |-> "ok", g |-> 0]}

\* Lines 425-446.
ProfileFramesFinish ==
  /\ process = "running"
  /\ hstack = << >>
  /\ mpc = "drain"
  /\ \E o \in DrainOutcomes :
       IF o.kind = "raise"
         THEN /\ last' = "drain_raise"
              /\ NoReturn
              /\ UNCHANGED << cur_traces_num, traces, process, clean, ticks, gcticks >>
       ELSE IF o.kind = "segv"
         THEN /\ last' = "drain_segv"
              /\ process' = "crashed"
              /\ NoReturn
              /\ UNCHANGED << cur_traces_num, traces, clean, ticks, gcticks >>
         ELSE LET r == IF USub(m_cur, m_start) > 0
                         THEN DrainLoop(m_start, m_cur, o.g)
                         ELSE [out |-> << >>, idx |-> << >>]
              IN /\ ret' = r.out
                 /\ ret_idx' = r.idx
                 /\ ret_int' = 0
                 /\ marked' = {}
                 /\ cur_traces_num' = m_start
                 /\ traces' = Released(m_start)
                 /\ last' = "drain_ok"
                 /\ clean' = FALSE
                 /\ ticks' = 0
                 /\ gcticks' = 0
                 /\ UNCHANGED process
  /\ mpc' = "idle"
  /\ m_cur' = 0
  /\ m_start' = 0
  /\ UNCHANGED << ok_to_sample, in_signal_handler, start_frame_index, start_trace_index,
                  skipped_in_gc, skipped_in_signal_handler, hstack, upd_t >>
  /\ UNCHANGED << reg_vars, tm_vars >>

(***************************************************************************)
(* scoutprof_gc_mark, lines 323-332: the mark function of _gc_hook, which  *)
(* the collector calls while the interrupted code allocates.               *)
(***************************************************************************)
\* for (i = 0; i < _cur_traces_num; i++): the indexes whose num_tracelines
\* the loop reads.
MarkVisits == 0 .. cur_traces_num - 1

\* A read beyond the MAX_TRACES slots of the allocation faults or returns
\* what lies there.
MarkOutcomes == IF \E i \in MarkVisits : i >= MAX_TRACES THEN {"ok", "segv"} ELSE {"ok"}

GcMark ==
  /\ process = "running"
  /\ hstack = << >>
  /\ \E o \in MarkOutcomes :
       IF o = "segv"
         THEN /\ process' = "crashed"
              /\ marked' = {}
              /\ last' = "gc_mark_segv"
         ELSE /\ marked' = MarkVisits
              /\ last' = "gc_mark"
              /\ UNCHANGED process
  /\ ret' = << >>
  /\ ret_idx' = << >>
  /\ ret_int' = 0
  /\ UNCHANGED << ok_to_sample, in_signal_handler, start_frame_index, start_trace_index,
                  cur_traces_num, skipped_in_gc, skipped_in_signal_handler, traces,
                  hstack, mpc, m_cur, m_start, upd_t, ticks, gcticks, clean >>
  /\ UNCHANGED << reg_vars, tm_vars >>

CtxNext ==
  \/ SignalHandlerEnter
  \/ SignalHandlerSet
  \/ \E during_gc \in BOOLEAN : RecordSampleGates(during_gc)
  \/ \E n \in 0 .. BUF_SIZE : RecordSampleCapture(n)
  \/ SignalHandlerClear
  \/ StartSampling
  \/ \E reset \in ResetArgs : StopSampling(reset)
  \/ \E f \in FrameIndexArgs, t \in TraceIndexArgs : UpdateIndexes(f, t)
  \/ CurrentTraceIndex
  \/ ProfileFramesLoad
  \/ ProfileFramesFinish
  \/ GcMark

(***************************************************************************)
(* The process-wide part: the profiled-thread list, its mutex and the      *)
(* install/uninstall/start methods.                                        *)
(***************************************************************************)
\* Threads of the process that call the methods, and the calls of
\* add_profiled_thread each may make.
NumThreads == 2
MaxAdds == 2
Threads == 1 .. NumThreads
NoThread == 0

\* The thread-local state of a thread that has called nothing yet:
\*   ok        _ok_to_sample
\*   traces    whether _traces points to a buffer
\*   buffers   buffers ALLOC_N returned to this thread and nobody freed
\*   hooks     entries rb_gc_register_address holds for &_gc_hook
\*   adds      calls of add_profiled_thread made
\*   found     whether the loop of remove_profiled_thread found the entry
FreshThread == [pc |-> "idle", ok |-> FALSE, traces |-> FALSE, buffers |-> 0,
                hooks |-> 0, adds |-> 0, found |-> FALSE]

RegInit ==
  /\ head_thread = << >>
  /\ mutex = NoThread
  /\ th = [t \in Threads |-> FreshThread]
  /\ reg_ret = "none"
  /\ installed = FALSE
  /\ running = FALSE
  /\ worker = "none"
  /\ workers_created = 0
  /\ reg_process = "running"
  /\ reg_last = << "init", NoThread >>

At(t, pc) == /\ reg_process = "running"
             /\ th[t].pc = pc

InList(t) == \E k \in DOMAIN head_thread : head_thread[k] = t

\* The list with its first entry for t unlinked (lines 160-170).
RECURSIVE Unlink(_, _)
Unlink(list, t) ==
  IF list = << >> THEN << >>
  ELSE IF Head(list) = t THEN Tail(list)
  ELSE << Head(list) >> \o Unlink(Tail(list), t)

(***************************************************************************)
(* rb_scout_add_profiled_thread, lines 124-143.                            *)
(***************************************************************************)
\* Line 127: init_thread_vars() (lines 335-351) allocates a buffer, stores
\* it in _traces and registers &_gc_hook once more.
AddProfiledThread_Init(t) ==
  /\ At(t, "idle")
  /\ th[t].adds < MaxAdds
  /\ th' = [th EXCEPT ![t] = [@ EXCEPT !.pc = "add_lock", !.ok = FALSE, !.traces = TRUE,
                                       !.buffers = @ + 1, !.hooks = @ + 1,
                                       !.adds = @ + 1]]
  /\ reg_ret' = "none"
  /\ reg_last' = << "add_init", t >>
  /\ UNCHANGED << head_thread, mutex, installed, running, worker, workers_created,
                  reg_process >>
  /\ UNCHANGED << ctx_vars, tm_vars >>

\* Line 129: pthread_mutex_lock.
AddProfiledThread_Lock(t) ==
  /\ At(t, "add_lock")
  /\ mutex = NoThread
  /\ mutex' = t
  /\ th' = [th EXCEPT ![t].pc = "add_insert"]
  /\ reg_ret' = "none"
  /\ reg_last' = << "add_lock", t >>
  /\ UNCHANGED << head_thread, installed, running, worker, workers_created, reg_process >>
  /\ UNCHANGED << ctx_vars, tm_vars >>

\* Lines 131-142: the new node becomes the head; unlock; return Qtrue.
AddProfiledThread_Insert(t) ==
  /\ At(t, "add_insert")
  /\ head_thread' = << t >> \o head_thread
  /\ mutex' = NoThread
  /\ th' = [th EXCEPT ![t].pc = "idle"]
  /\ reg_ret' = "true"
  /\ reg_last' = << "add_return", t >>
  /\ UNCHANGED << installed, running, worker, workers_created, reg_process >>
  /\ UNCHANGED << ctx_vars, tm_vars >>

(***************************************************************************)
(* rb_scout_remove_profiled_thread (lines 184-188) and                     *)
(* remove_profiled_thread (lines 149-178).                                 *)
(***************************************************************************)
\* A removal that leaves the sampling flag alone until it has the mutex.
RemoveProfiledThread_Disable_Late(t) ==
  /\ At(t, "idle")
  /\ th' = [th EXCEPT ![t] = [@ EXCEPT !.pc = "rm_lock", !.found = FALSE]]
  /\ reg_ret' = "none"
  /\ reg_last' = << "rm_disable", t >>
  /\ UNCHANGED << head_thread, mutex, installed, running, worker, workers_created,
                  reg_process >>
  /\ UNCHANGED << ctx_vars, tm_vars >>

\* Line 154: atomic_store(&_ok_to_sample, false).
RemoveProfiledThread_Disable(t) ==
  /\ At(t, "idle")
  /\ th' = [th EXCEPT ![t] = [@ EXCEPT !.pc = "rm_lock", !.ok = FALSE, !.found = FALSE]]
  /\ reg_ret' = "none"
  /\ reg_last' = << "rm_disable", t >>
  /\ UNCHANGED << head_thread, mutex, installed, running, worker, workers_created,
                  reg_process >>
  /\ UNCHANGED << ctx_vars, tm_vars >>

\* Line 156: pthread_mutex_lock.
RemoveProfiledThread_Lock(t) ==
  /\ At(t, "rm_lock")
  /\ mutex = NoThread
  /\ mutex' = t
  /\ th' = [th EXCEPT ![t].pc = "rm_unlink"]
  /\ reg_ret' = "none"
  /\ reg_last' = << "rm_lock", t >>
  /\ UNCHANGED << head_thread, installed, running, worker, workers_created, reg_process >>
  /\ UNCHANGED << ctx_vars, tm_vars >>

\* Lines 158-172: unlink and free the first node of this thread; unlock.
RemoveProfiledThread_Unlink(t) ==
  /\ At(t, "rm_unlink")
  /\ head_thread' = Unlink(head_thread, t)
  /\ mutex' = NoThread
  /\ th' = [th EXCEPT ![t] = [@ EXCEPT !.pc = "rm_release", !.found = InList(t)]]
  /\ reg_ret' = "none"
  /\ reg_last' = << "rm_unlink", t >>
  /\ UNCHANGED << installed, running, worker, workers_created, reg_process >>
  /\ UNCHANGED << ctx_vars, tm_vars >>

\* xfree(&_traces) hands free() the address of the thread-local variable,
\* not the buffer it points to: the allocator aborts the process, or returns
\* having freed no buffer.
XfreeOutcomes == {"returns", "abort"}

\* Lines 174-177 and 187: rb_gc_unregister_address drops one entry for
\* &_gc_hook if there is one; xfree(&_traces); return 0, then Qtrue.
RemoveProfiledThread_Release(t) ==
  /\ At(t, "rm_release")
  /\ \E o \in XfreeOutcomes :
       IF o = "abort"
         THEN /\ reg_process' = "crashed"
              /\ reg_ret' = "none"
              /\ reg_last' = << "rm_abort", t >>
              /\ th' = [th EXCEPT ![t] = [@ EXCEPT !.pc = "idle",
                                                   !.hooks = IF @ > 0 THEN @ - 1 ELSE 0]]
         ELSE /\ reg_ret' = "true"
              /\ reg_last' = << "rm_return", t >>
              /\ th' = [th EXCEPT ![t] = [@ EXCEPT !.pc = "idle",
                                                   !.hooks = IF @ > 0 THEN @ - 1 ELSE 0]]
              /\ UNCHANGED reg_process
  /\ UNCHANGED << head_thread, mutex, installed, running, worker, workers_created >>
  /\ UNCHANGED << ctx_vars, tm_vars >>

\* rb_scout_start_sampling (lines 457-461) on thread t.
ThreadStartSampling(t) ==
  /\ At(t, "idle")
  /\ ~th[t].ok
  /\ th' = [th EXCEPT ![t].ok = TRUE]
  /\ reg_ret' = "true"
  /\ reg_last' = << "start_sampling", t >>
  /\ UNCHANGED << head_thread, mutex, installed, running, worker, workers_created,
                  reg_process >>
  /\ UNCHANGED << ctx_vars, tm_vars >>

(***************************************************************************)
(* install / uninstall / start.                                            *)
(***************************************************************************)
\* install that forgets to record that it ran (line 313 missing).
InstallProfiling_NoFlag ==
  /\ reg_process = "running"
  /\ IF installed
       THEN /\ reg_ret' = "false"
            /\ UNCHANGED << worker, workers_created >>
       ELSE /\ worker' = "running"
            /\ workers_created' = workers_created + 1
            /\ reg_ret' = "true"
  /\ reg_last' = << "install", NoThread >>
  /\ UNCHANGED << head_thread, mutex, th, installed, running, reg_process >>
  /\ UNCHANGED << ctx_vars, tm_vars >>

\* rb_scout_install_profiling, lines 294-316.
InstallProfiling ==
  /\ reg_process = "running"
  /\ IF installed
       THEN /\ reg_ret' = "false"
            /\ UNCHANGED << installed, worker, workers_created >>
       ELSE /\ worker' = "running"
            /\ workers_created' = workers_created + 1
            /\ installed' = TRUE
            /\ reg_ret' = "true"
  /\ reg_last' = << "install", NoThread >>
  /\ UNCHANGED << head_thread, mutex, th, running, reg_process >>
  /\ UNCHANGED << ctx_vars, tm_vars >>

\* pthread_cancel(btid) before any pthread_create: btid is the zero the
\* static storage holds, which names no thread; the call faults or returns.
CancelOutcomes == IF worker = "none" THEN {"returns", "fault"} ELSE {"returns"}

\* rb_scout_uninstall_profiling, lines 285-291.
UninstallProfiling ==
  /\ reg_process = "running"
  /\ \E o \in CancelOutcomes :
       IF o = "fault"
         THEN /\ reg_process' = "crashed"
              /\ reg_ret' = "none"
              /\ UNCHANGED worker
         ELSE /\ worker' = IF worker = "none" THEN "none" ELSE "cancelled"
              /\ reg_ret' = "nil"
              /\ UNCHANGED reg_process
  /\ reg_last' = << "uninstall", NoThread >>
  /\ UNCHANGED << head_thread, mutex, th, installed, running, workers_created >>
  /\ UNCHANGED << ctx_vars, tm_vars >>

\* rb_scout_start_profiling, lines 270-280.
StartProfiling ==
  /\ reg_process = "running"
  /\ running' = TRUE
  /\ reg_ret' = "true"
  /\ reg_last' = << "start", NoThread >>
  /\ UNCHANGED << head_thread, mutex, th, installed, worker, workers_created,
                  reg_process >>
  /\ UNCHANGED << ctx_vars, tm_vars >>

RegNext ==
  \/ \E t \in Threads : AddProfiledThread_Init(t)
  \/ \E t \in Threads : AddProfiledThread_Lock(t)
  \/ \E t \in Threads : AddProfiledThread_Insert(t)
  \/ \E t \in Threads : RemoveProfiledThread_Disable(t)
  \/ \E t \in Threads : RemoveProfiledThread_Lock(t)
  \/ \E t \in Threads : RemoveProfiledThread_Unlink(t)
  \/ \E t \in Threads : RemoveProfiledThread_Release(t)
  \/ \E t \in Threads : ThreadStartSampling(t)
  \/ InstallProfiling
  \/ UninstallProfiling
  \/ StartProfiling

(***************************************************************************)
(* The timer path: background_worker (lines 227-265) submits the broadcast *)
(* scout_signal_threads_to_profile (lines 207-223) as a postponed job; the *)
(* host runs the job at a later safe point; each thread it signals runs    *)
(* the SIGVTALRM handler (lines 358-372) on its own stack.                 *)
(***************************************************************************)
\* Traces the model lets one thread's handler append.
MaxSamples == 1
\* The threads that register, run and exit beside the timer.
NumTimerThreads == 1
TimerThreads == 1 .. NumTimerThreads

\* The thread that runs postponed jobs, as an owner of the mutex.
Host == NumThreads + 1

TmInit ==
  /\ job_registered = FALSE
  /\ jobs_pending = 0
  /\ wpc = "sleep"
  /\ jpc = "idle"
  /\ jptr = 0
  /\ sig = [t \in Threads |-> FALSE]
  /\ samples = [t \in Threads |-> 0]
  /\ gc_skips = [t \in Threads |-> 0]

\* A thread whose start routine has not returned.
Alive(t) == th[t].pc # "exited"

\* What clock_nanosleep returns (lines 237, 245, 258, 261).
ClockResults == {"ok", "EINTR", "error"}

\* A worker that submits on every tick, whatever the flag says.
JobRegistered_Ignored == FALSE

\* Line 249: atomic_load(&_job_registered).
JobRegistered == job_registered

\* Lines 233-249 and 256-264: one sleep of the worker and the checks after
\* it.  pthread_cancel acts at the sleep, a cancellation point.
WorkerTick(clock_result, during_gc) ==
  /\ reg_process = "running"
  /\ worker = "running"
  /\ wpc = "sleep"
  /\ IF clock_result # "ok" \/ during_gc
       THEN /\ reg_last' = << "w_skip", NoThread >>
            /\ UNCHANGED wpc
       ELSE IF JobRegistered
         THEN /\ reg_last' = << "w_busy", NoThread >>
              /\ UNCHANGED wpc
         ELSE /\ reg_last' = << "w_tick", NoThread >>
              /\ wpc' = "register"
  /\ reg_ret' = "none"
  /\ UNCHANGED << head_thread, mutex, th, installed, running, worker, workers_created,
                  reg_process >>
  /\ UNCHANGED << job_registered, jobs_pending, jpc, jptr, sig, samples, gc_skips >>
  /\ UNCHANGED ctx_vars

\* rb_postponed_job_register_one(0, func, 0): 2 when func is already queued
\* (nothing is added), else 1 when it is queued now and 0 when the host's
\* job table is full.
RegisterOneResults == IF jobs_pending > 0 THEN {2} ELSE {1, 0}

\* Lines 250-251 and 253-255.
WorkerRegister(register_result) ==
  /\ reg_process = "running"
  /\ wpc = "register"
  /\ register_result \in RegisterOneResults
  /\ jobs_pending' = IF register_result = 1 THEN jobs_pending + 1 ELSE jobs_pending
  /\ wpc' = IF register_result \in {1, 2} THEN "store" ELSE "sleep"
  /\ reg_last' = << IF register_result = 0 THEN "w_rejected" ELSE "w_register", NoThread >>
  /\ reg_ret' = "none"
  /\ UNCHANGED << head_thread, mutex, th, installed, running, worker, workers_created,
                  reg_process >>
  /\ UNCHANGED << job_registered, jpc, jptr, sig, samples, gc_skips >>
  /\ UNCHANGED ctx_vars

\* Line 252: atomic_store(&_job_registered, true).
WorkerStore ==
  /\ reg_process = "running"
  /\ wpc = "store"
  /\ job_registered' = TRUE
  /\ wpc' = "sleep"
  /\ reg_last' = << "w_store", NoThread >>
  /\ reg_ret' = "none"
  /\ UNCHANGED << head_thread, mutex, th, installed, running, worker, workers_created,
                  reg_process >>
  /\ UNCHANGED << jobs_pending, jpc, jptr, sig, samples, gc_skips >>
  /\ UNCHANGED ctx_vars

\* The host takes the queued job out of its table and calls
\* scout_signal_threads_to_profile (line 207).
JobStart ==
  /\ reg_process = "running"
  /\ jpc = "idle"
  /\ jobs_pending > 0
  /\ jobs_pending' = jobs_pending - 1
  /\ jpc' = "trylock"
  /\ reg_last' = << "job_start", NoThread >>
  /\ reg_ret' = "none"
  /\ UNCHANGED << head_thread, mutex, th, installed, running, worker, workers_created,
                  reg_process >>
  /\ UNCHANGED << job_registered, wpc, jptr, sig, samples, gc_skips >>
  /\ UNCHANGED ctx_vars

\* A broadcast that walks the list whether or not it got the mutex.
TryLockAcquires_Always == TRUE

\* Line 211: pthread_mutex_trylock(&profiled_threads_mutex) == 0.
TryLockAcquires == mutex = NoThread

\* Lines 211-213: on success ptr = head_thread; on failure the walk is skipped.
JobTryLock ==
  /\ reg_process = "running"
  /\ jpc = "trylock"
  /\ IF TryLockAcquires
       THEN /\ mutex' = Host
            /\ jptr' = IF head_thread = << >> THEN 0 ELSE 1
            /\ jpc' = IF head_thread = << >> THEN "unlock" ELSE "probe"
            /\ reg_last' = << "job_locked", NoThread >>
       ELSE /\ jpc' = "clear"
            /\ reg_last' = << "job_contended", NoThread >>
            /\ UNCHANGED << mutex, jptr >>
  /\ reg_ret' = "none"
  /\ UNCHANGED << head_thread, th, installed, running, worker, workers_created,
                  reg_process >>
  /\ UNCHANGED << job_registered, jobs_pending, wpc, sig, samples, gc_skips >>
  /\ UNCHANGED ctx_vars

\* Line 217 and the test of line 213: ptr = ptr->next; ptr != NULL.
NextNode == IF jptr < Len(head_thread) THEN jptr + 1 ELSE 0
AfterNode == IF jptr < Len(head_thread) THEN "probe" ELSE "unlock"

\* pthread_kill(th, 0) on a live thread returns 0.  The handle of a thread
\* that has exited is no longer valid: the call returns ESRCH, returns 0
\* (the handle is still cached or names a newer thread), or faults.
ProbeOutcomes(t) == IF Alive(t) THEN {"alive"} ELSE {"ESRCH", "alive", "fault"}

\* Line 214: the liveness probe of the node ptr points to.
JobProbe ==
  /\ reg_process = "running"
  /\ jpc = "probe"
  /\ \E o \in ProbeOutcomes(head_thread[jptr]) :
       IF o = "fault"
         THEN /\ reg_process' = "crashed"
              /\ reg_last' = << "job_probe_fault", head_thread[jptr] >>
              /\ UNCHANGED << jpc, jptr >>
       ELSE IF o = "ESRCH"
         THEN /\ jptr' = NextNode
              /\ jpc' = AfterNode
              /\ reg_last' = << "job_probe_gone", head_thread[jptr] >>
              /\ UNCHANGED reg_process
         ELSE /\ jpc' = "deliver"
              /\ reg_last' = << "job_probe_alive", head_thread[jptr] >>
              /\ UNCHANGED << jptr, reg_process >>
  /\ reg_ret' = "none"
  /\ UNCHANGED << head_thread, mutex, th, installed, running, worker, workers_created >>
  /\ UNCHANGED << job_registered, jobs_pending, wpc, sig, samples, gc_skips >>
  /\ UNCHANGED ctx_vars

\* pthread_kill(th, SIGVTALRM): the signal is made pending on a live thread;
\* sent to the handle of an exited thread it is lost, or the call faults.
DeliverOutcomes(t) == IF Alive(t) THEN {"sent"} ELSE {"lost", "fault"}

\* Lines 215-217: the delivery to the node ptr points to, and the advance.
JobDeliver ==
  /\ reg_process = "running"
  /\ jpc = "deliver"
  /\ \E o \in DeliverOutcomes(head_thread[jptr]) :
       IF o = "fault"
         THEN /\ reg_process' = "crashed"
              /\ reg_last' = << "job_deliver_fault", head_thread[jptr] >>
              /\ UNCHANGED << jpc, jptr, sig >>
         ELSE /\ sig' = IF o = "sent" THEN [sig EXCEPT ![head_thread[jptr]] = TRUE] ELSE sig
              /\ jptr' = NextNode
              /\ jpc' = AfterNode
              /\ reg_last' = << IF o = "sent" THEN "job_deliver" ELSE "job_deliver_stale",
                                head_thread[jptr] >>
              /\ UNCHANGED reg_process
  /\ reg_ret' = "none"
  /\ UNCHANGED << head_thread, mutex, th, installed, running, worker, workers_created >>
  /\ UNCHANGED << job_registered, jobs_pending, wpc, samples, gc_skips >>
  /\ UNCHANGED ctx_vars

\* Line 219: pthread_mutex_unlock.
JobUnlock ==
  /\ reg_process = "running"
  /\ jpc = "unlock"
  /\ mutex' = NoThread
  /\ jpc' = "clear"
  /\ jptr' = 0
  /\ reg_last' = << "job_unlock", NoThread >>
  /\ reg_ret' = "none"
  /\ UNCHANGED << head_thread, th, installed, running, worker, workers_created,
                  reg_process >>
  /\ UNCHANGED << job_registered, jobs_pending, wpc, sig, samples, gc_skips >>
  /\ UNCHANGED ctx_vars

\* Line 222: atomic_store(&_job_registered, false), and the return.
JobClear ==
  /\ reg_process = "running"
  /\ jpc = "clear"
  /\ job_registered' = FALSE
  /\ jpc' = "idle"
  /\ reg_last' = << "job_clear", NoThread >>
  /\ reg_ret' = "none"
  /\ UNCHANGED << head_thread, mutex, th, installed, running, worker, workers_created,
                  reg_process >>
  /\ UNCHANGED << jobs_pending, wpc, jptr, sig, samples, gc_skips >>
  /\ UNCHANGED ctx_vars

\* What scout_record_sample does with a sample on a thread whose
\* _ok_to_sample is true: it counts a skip during GC (lines 394-397), appends
\* a trace (lines 402-407), or drops the sample (buffer full, too few frames).
SampleOutcomes == {"gc", "accepted", "dropped"}

\* The pending SIGVTALRM is delivered to thread t and the handler of lines
\* 358-372 runs to its return on t's stack, between two steps of t's own
\* code.  It touches only t's thread-local state, and returns at once when
\* _ok_to_sample is false.
HandlerRun(t, outcome) ==
  /\ reg_process = "running"
  /\ Alive(t)
  /\ sig[t]
  /\ (th[t].ok /\ outcome = "accepted") => samples[t] < MaxSamples
  /\ (th[t].ok /\ outcome = "gc") => gc_skips[t] < MaxSkips
  /\ sig' = [sig EXCEPT ![t] = FALSE]
  /\ IF ~th[t].ok
       THEN /\ reg_last' = << "h_disabled", t >>
            /\ UNCHANGED << samples, gc_skips >>
       ELSE IF outcome = "gc"
         THEN /\ gc_skips' = [gc_skips EXCEPT ![t] = @ + 1]
              /\ reg_last' = << "h_gc", t >>
              /\ UNCHANGED samples
       ELSE IF outcome = "accepted"
         THEN /\ samples' = [samples EXCEPT ![t] = @ + 1]
              /\ reg_last' = << "h_sampled", t >>
              /\ UNCHANGED gc_skips
         ELSE /\ reg_last' = << "h_dropped", t >>
              /\ UNCHANGED << samples, gc_skips >>
  /\ reg_ret' = "none"
  /\ UNCHANGED << head_thread, mutex, th, installed, running, worker, workers_created,
                  reg_process >>
  /\ UNCHANGED << job_registered, jobs_pending, wpc, jpc, jptr >>
  /\ UNCHANGED ctx_vars

\* Thread t returns from its start routine or is cancelled.  No cleanup
\* handler was pushed for it (the pthread_cleanup_push of line 348 is
\* commented out), so thread_cleanup_handler (lines 196-200) does not run:
\* the thread goes, with its pending signal, and nothing else changes.
ThreadExit(t) ==
  /\ At(t, "idle")
  /\ th' = [th EXCEPT ![t].pc = "exited"]
  /\ sig' = [sig EXCEPT ![t] = FALSE]
  /\ reg_last' = << "exit", t >>
  /\ reg_ret' = "none"
  /\ UNCHANGED << head_thread, mutex, installed, running, worker, workers_created,
                  reg_process >>
  /\ UNCHANGED << job_registered, jobs_pending, wpc, jpc, jptr, samples, gc_skips >>
  /\ UNCHANGED ctx_vars

TimerNext ==
  \/ \E t \in TimerThreads : AddProfiledThread_Init(t)
  \/ \E t \in TimerThreads : AddProfiledThread_Lock(t)
  \/ \E t \in TimerThreads : AddProfiledThread_Insert(t)
  \/ \E t \in TimerThreads : RemoveProfiledThread_Disable(t)
  \/ \E t \in TimerThreads : RemoveProfiledThread_Lock(t)
  \/ \E t \in TimerThreads : RemoveProfiledThread_Unlink(t)
  \/ \E t \in TimerThreads : RemoveProfiledThread_Release(t)
  \/ \E t \in TimerThreads : ThreadStartSampling(t)
  \/ \E t \in TimerThreads : ThreadExit(t)
  \/ \E t \in TimerThreads, outcome \in SampleOutcomes : HandlerRun(t, outcome)
  \/ InstallProfiling
  \/ UninstallProfiling
  \/ \E clock_result \in ClockResults, during_gc \in BOOLEAN : WorkerTick(clock_result, during_gc)
  \/ \E register_result \in {0, 1, 2} : WorkerRegister(register_result)
  \/ WorkerStore
  \/ JobStart
  \/ JobTryLock
  \/ JobProbe
  \/ JobDeliver
  \/ JobUnlock
  \/ JobClear

Init == CtxInit /\ RegInit /\ TmInit

Spec == Init /\ [][CtxNext]_vars

SpecReg == Init /\ [][RegNext]_vars

SpecTimer == Init /\ [][TimerNext]_vars

(***************************************************************************)
(* Properties of one thread's context (checked under Spec).                *)
(***************************************************************************)
\* Handler invocations that have set the guard and are calling, or are
\* inside, scout_record_sample.
InFlight == {i \in DOMAIN hstack : hstack[i].pc \in {"rec", "capture"}}

\* The indexes of the window [start_trace_index, cur_traces_num) that hold a
\* trace with num_tracelines > 0, and that trace as an array of pairs.
WindowIdx == {i \in 0 .. MAX_TRACES - 1 :
                /\ start_trace_index <= i
                /\ i < cur_traces_num
                /\ traces[i].num_tracelines > 0}
RECURSIVE Ascending(_)
Ascending(S) ==
  IF S = {} THEN << >>
  ELSE LET m == CHOOSE x \in S : \A y \in S : x <= y
       IN << m >> \o Ascending(S \ {m})
FirstLines(i) ==
  [n \in 1 .. traces[i].num_tracelines |->
     << traces[i].frames_buf[n - 1], traces[i].lines_buf[n - 1] >>]
WindowTraces == [k \in 1 .. Cardinality(WindowIdx) |-> FirstLines(Ascending(WindowIdx)[k])]

\* C1: in every reachable state of the thread's context, whatever the
\* sequence of captures, start_sampling, stop_sampling, update_indexes and
\* profile_frames, 0 <= trace_count <= MAX_TRACES.
C1_TraceCountWithinCapacity ==
  /\ 0 <= cur_traces_num
  /\ cur_traces_num <= MAX_TRACES

\* C2: profile_frames called with sampling stopped returns exactly the traces
\* of the window [start_trace_index, trace_count) that have num_lines > 0, in
\* index order, each as its first num_lines (frame, line) pairs, and leaves
\* trace_count = start_trace_index, for every pair of values of the two
\* indexes (start_trace_index > trace_count included, with an empty result).
C2_DrainReturnsWindow ==
  [][(ProfileFramesFinish /\ ~ok_to_sample)
       => /\ last' = "drain_ok"
          /\ ret' = WindowTraces
          /\ cur_traces_num' = start_trace_index]_vars

\* C3: after update_indexes(f, t), no profile_frames call made before the
\* next update_indexes returns a trace stored at a buffer index below t.
C3_NoTraceBelowBoundary ==
  \A k \in DOMAIN ret_idx : ret_idx[k] >= upd_t

\* A profile_frames call returned the trace at index 1 and left out the one
\* at index 0, stored before the boundary update_indexes(f, 1) set.
C3_Witness ==
  /\ last = "drain_ok"
  /\ upd_t = 1
  /\ ret_idx = << 1 >>
  /\ traces[0].nt_init
  /\ traces[0].num_tracelines > 0

\* C4: at most one capture is in flight on the thread, and an interrupt that
\* arrives while in_handler is true (sampling enabled) adds exactly 1 to
\* skipped_reentrant, starts no capture and leaves trace_count, the buffer
\* and in_handler as they were.
C4_ReentrancyGuard ==
  /\ [](Cardinality(InFlight) <= 1)
  /\ [][(SignalHandlerEnter /\ ok_to_sample /\ in_signal_handler)
          => /\ skipped_in_signal_handler' = skipped_in_signal_handler + 1
             /\ hstack' = hstack
             /\ cur_traces_num' = cur_traces_num
             /\ traces' = traces
             /\ in_signal_handler' = in_signal_handler]_vars

\* An interrupt was skipped as reentrant while a capture was in flight.
C4_Witness ==
  /\ last = "h_reentrant"
  /\ InFlight # {}
  /\ in_signal_handler
  /\ skipped_in_signal_handler = 1

\* C5: a capture that passed the sampling, GC and capacity gates with n
\* frames and start_frame_index s is accepted iff n - s > 2; accepted, it
\* adds one to trace_count and stores num_lines = n - s - 2 > 0; otherwise
\* trace_count is unchanged.  For every n in 0..BUF_SIZE and every s.
C5_AcceptIffMoreThanTwo ==
  [][\A n \in 0 .. BUF_SIZE :
       RecordSampleCapture(n)
         => IF n - Top.sfi > 2
              THEN /\ cur_traces_num' = cur_traces_num + 1
                   /\ traces'[Top.cur].num_tracelines = n - Top.sfi - 2
                   /\ traces'[Top.cur].num_tracelines > 0
              ELSE cur_traces_num' = cur_traces_num]_vars

\* C6: stop_sampling(reset) clears sampling_enabled; with reset = true it
\* zeroes trace_count and both skip counters, otherwise it leaves the three
\* unchanged; start_trace_index and start_frame_index are never changed.
C6_StopSamplingEffect ==
  [][\A reset \in ResetArgs :
       StopSampling(reset)
         => /\ ok_to_sample' = FALSE
            /\ IF reset = "true"
                 THEN /\ cur_traces_num' = 0
                      /\ skipped_in_gc' = 0
                      /\ skipped_in_signal_handler' = 0
                 ELSE UNCHANGED << cur_traces_num, skipped_in_gc, skipped_in_signal_handler >>
            /\ UNCHANGED << start_trace_index, start_frame_index >>]_vars

\* stop_sampling(true) has run on a context whose window indexes are not 0.
C6_Witness ==
  /\ last = "stop_sampling_reset"
  /\ start_trace_index > 0
  /\ start_frame_index > 0
  /\ cur_traces_num = 0

\* C8: a capture attempt on a sampling-enabled thread during GC adds exactly
\* 1 to skipped_during_gc and leaves trace_count and the buffer unchanged, so
\* after an undisturbed run of ticks, gcticks of them during GC,
\* skipped_during_gc = gcticks and trace_count = ticks - gcticks; an
\* interrupt on a thread whose sampling is disabled changes no counter.
C8_GcSkipsCounted ==
  /\ [](clean => /\ skipped_in_gc = gcticks
                 /\ cur_traces_num = ticks - gcticks)
  /\ [][\A during_gc \in BOOLEAN :
          (RecordSampleGates(during_gc) /\ ok_to_sample /\ during_gc)
            => /\ skipped_in_gc' = skipped_in_gc + 1
               /\ cur_traces_num' = cur_traces_num
               /\ traces' = traces
               /\ hstack'[Len(hstack)].pc = "clear"]_vars
  /\ [][(SignalHandlerEnter /\ ~ok_to_sample)
          => UNCHANGED << skipped_in_gc, skipped_in_signal_handler, cur_traces_num,
                          traces, hstack >>]_vars

\* An undisturbed run of ticks, one of them during GC, filled the buffer.
C8_Witness ==
  /\ clean
  /\ gcticks = 1
  /\ ticks = MAX_TRACES + 1
  /\ cur_traces_num = MAX_TRACES

\* C9: a capture attempt made when trace_count = MAX_TRACES is dropped:
\* trace_count, every stored trace and both skip counters are unchanged, and
\* rb_profile_frames is not run on any slot.
C9_FullBufferDrops ==
  [][\A during_gc \in BOOLEAN :
       (RecordSampleGates(during_gc) /\ ok_to_sample /\ ~during_gc
          /\ cur_traces_num = MAX_TRACES)
         => /\ UNCHANGED << cur_traces_num, traces, skipped_in_gc, skipped_in_signal_handler >>
            /\ hstack'[Len(hstack)].pc = "clear"]_vars

\* A capture attempt was dropped at a full buffer.
C9_Witness ==
  /\ last = "r_full"
  /\ cur_traces_num = MAX_TRACES
  /\ \A i \in 0 .. MAX_TRACES - 1 : traces[i].nt_init

\* C18: no consumer reads a stale buffer entry: every trace profile_frames
\* returns, and every entry scoutprof_gc_mark visits, is at an index inside
\* the buffer that an accepted capture wrote after the slot was last released
\* (after trace_count was last moved to or below that index).
C18_NoStaleRead ==
  /\ [][ProfileFramesFinish
          => \A k \in DOMAIN ret_idx' :
               /\ ret_idx'[k] < MAX_TRACES
               /\ traces[ret_idx'[k]].live]_vars
  /\ [](\A i \in marked : /\ i < MAX_TRACES
                          /\ traces[i].live)

\* The steps of a capture, from the delivery of the interrupt to the return
\* of the handler.
CaptureStep ==
  \/ SignalHandlerEnter
  \/ SignalHandlerSet
  \/ \E during_gc \in BOOLEAN : RecordSampleGates(during_gc)
  \/ \E n \in 0 .. BUF_SIZE : RecordSampleCapture(n)
  \/ SignalHandlerClear

\* C19: drain (profile_frames) is the only operation that decreases
\* trace_count: no step of a capture, start_sampling, stop_sampling (with any
\* reset value), update_indexes or current_trace_index decreases it, and
\* profile_frames never increases it.
C19_OnlyDrainShrinks ==
  /\ [][(\/ CaptureStep
         \/ StartSampling
         \/ \E reset \in ResetArgs : StopSampling(reset)
         \/ \E f \in FrameIndexArgs, t \in TraceIndexArgs : UpdateIndexes(f, t)
         \/ CurrentTraceIndex)
          => cur_traces_num' >= cur_traces_num]_vars
  /\ [][(ProfileFramesLoad \/ ProfileFramesFinish)
          => cur_traces_num' <= cur_traces_num]_vars

\* C21: the reentrancy guard is always released: whenever no handler is
\* executing on the thread in_handler is false, whichever way the capture
\* ended (sampling disabled, GC in progress, buffer full, frames rejected or
\* accepted): every exit of scout_record_sample leads to the store that
\* clears the guard, and the handler's return leaves it clear.
C21_GuardAlwaysReleased ==
  /\ [](hstack = << >> => ~in_signal_handler)
  /\ [][(\/ \E during_gc \in BOOLEAN : RecordSampleGates(during_gc)
         \/ \E n \in 0 .. BUF_SIZE : RecordSampleCapture(n))
          => /\ Len(hstack') = Len(hstack)
             /\ hstack'[Len(hstack)].pc \in {"capture", "clear"}]_vars
  /\ [][SignalHandlerClear => ~in_signal_handler']_vars

\* The handler has returned and nothing is on the stack, after captures that
\* were accepted (the buffer is full) and one that was skipped during GC.
C21_Witness ==
  /\ last = "h_return"
  /\ hstack = << >>
  /\ ~in_signal_handler
  /\ ok_to_sample
  /\ cur_traces_num = MAX_TRACES
  /\ skipped_in_gc = 1

(***************************************************************************)
(* Properties of the process-wide part (checked under SpecReg).            *)
(***************************************************************************)
\* C7: remove_profiled_thread on a thread that is not in the list returns
\* false and mutates nothing: the list, the thread's sampling flag, its
\* buffer and its keep-alive registration stay as they are.
C7_RemoveAbsentIsNoop ==
  [][\A t \in Threads :
       /\ (RemoveProfiledThread_Disable(t) /\ ~InList(t))
            => /\ th'[t].ok = th[t].ok
               /\ head_thread' = head_thread
       /\ (RemoveProfiledThread_Release(t) /\ ~th[t].found)
            => /\ reg_ret' = "false"
               /\ reg_process' = "running"
               /\ th'[t].hooks = th[t].hooks
               /\ th'[t].traces = th[t].traces
               /\ th'[t].buffers = th[t].buffers
               /\ head_thread' = head_thread]_vars

\* C10: the first install returns true and starts the background worker;
\* every later install, whatever install/uninstall/start calls came before,
\* returns false and starts none: at most one worker thread is ever created.
C10_InstallOneWay ==
  /\ [](workers_created <= 1)
  /\ [][InstallProfiling
          => IF installed
               THEN /\ reg_ret' = "false"
                    /\ workers_created' = workers_created
                    /\ worker' = worker
               ELSE /\ reg_ret' = "true"
                    /\ workers_created' = 1
                    /\ worker' = "running"]_vars

\* install was called after uninstall had cancelled the worker, and failed.
C10_Witness ==
  /\ reg_last = << "install", NoThread >>
  /\ reg_ret = "false"
  /\ worker = "cancelled"
  /\ workers_created = 1

\* C14: in every reachable state of the registry, after any sequence of
\* add_profiled_thread and remove_profiled_thread calls by any threads, each
\* thread handle appears in the list at most once.
C14_AtMostOneEntry ==
  \A t \in Threads : Cardinality({k \in DOMAIN head_thread : head_thread[k] = t}) <= 1

\* C15: every trace buffer, and its keep-alive registration, is released
\* exactly once by the owning thread's remove_profiled_thread: a thread never
\* holds more buffers or registrations than the one _traces points to, and
\* the release step frees that buffer and registration and nothing that was
\* never allocated, so it leaves none behind and never faults.
C15_BufferReleasedOnce ==
  /\ [](\A t \in Threads : /\ th[t].buffers <= 1
                            /\ th[t].hooks <= 1)
  /\ [][\A t \in Threads :
          RemoveProfiledThread_Release(t)
            => /\ reg_process' = "running"
               /\ th'[t].buffers = 0
               /\ th'[t].hooks = 0]_vars

(***************************************************************************)
(* Properties of the timer path (checked under SpecTimer).                 *)
(***************************************************************************)
\* C11: at most one deferred broadcast job is pending at any time: in every
\* interleaving of the worker's loop with the host running the job, the
\* worker never submits a job while one it submitted before has not yet run.
C11_OnePendingJob ==
  /\ [](jobs_pending <= 1)
  /\ [][\A register_result \in {0, 1, 2} :
          WorkerRegister(register_result) => jobs_pending = 0]_vars

\* A tick found the flag set while the submitted job was still pending, and
\* submitted nothing.
C11_Witness ==
  /\ reg_last = << "w_busy", NoThread >>
  /\ job_registered
  /\ jobs_pending = 1
  /\ jpc = "idle"

\* The positions of remove_profiled_thread after its first step.
RemovePcs == {"rm_lock", "rm_unlink", "rm_release"}

\* C12: while a thread's sampling_enabled is false, an interrupt delivered to
\* it appends no trace and changes no counter; remove_profiled_thread clears
\* the flag in its first step, before it takes the mutex, so from that step
\* on no trace is appended to the thread's buffer, in every interleaving with
\* a broadcast that still finds the thread's entry.
C12_DisabledThreadNotSampled ==
  /\ [](\A t \in Threads : th[t].pc \in RemovePcs => ~th[t].ok)
  /\ [][\A t \in Threads :
          ~th[t].ok => /\ samples'[t] = samples[t]
                       /\ gc_skips'[t] = gc_skips[t]]_vars

\* A thread that had been sampled got the interrupt of a broadcast while it
\* was waiting for the mutex in remove_profiled_thread, its entry still in
\* the list, and the handler returned at once.
C12_Witness ==
  \E t \in Threads :
    /\ reg_last = << "h_disabled", t >>
    /\ th[t].pc = "rm_lock"
    /\ InList(t)
    /\ samples[t] = 1

C16_ExitDeregisters ==
  \A t \in Threads :
    th[t].pc = "exited" => /\ ~InList(t)
                           /\ th[t].buffers = 0
                           /\ th[t].hooks = 0

\* C17: the broadcast never delivers the sampling interrupt to a thread that
\* has already exited: in every interleaving of a thread's exit with the
\* walk (probe, then delivery), the delivery step targets a thread that is
\* alive at that step.
C17_DeliverOnlyToLive ==
  [][JobDeliver => Alive(head_thread[jptr])]_vars

\* C20: the in-flight flag never sticks: in every interleaving of the worker
\* (submit, then set job_registered) with the host running the job
\* (broadcast, then clear job_registered), job_registered = true implies a
\* submitted job has not yet finished.
C20_FlagNeverSticks ==
  job_registered => (jobs_pending > 0 \/ jpc # "idle")

====
